---------------------------- MODULE Spec2Model ----------------------------
(***************************************************************************)
(* PluginTemplate: the remote input client (ophelia_input.browser_input),  *)
(* the input dispatcher (ophelia_input.input) and the DSL component model  *)
(* (JS_Component, JS_Container, JS_Header_Div), as state machines.         *)
(*                                                                         *)
(* Spec     one call of ophelia_input.input / browser_input against a peer *)
(*          that behaves arbitrarily on every attempt.                     *)
(* SpecDSL  a caller building component trees and serializing them.        *)
(* SpecClasses  a caller styling built components with add_class.          *)
(* SpecPage     a caller wrapping a tree in a JS_Page, directly or through *)
(*              ophelia_plugin.input_scheme, and serializing the page.     *)
(***************************************************************************)
EXTENDS Integers, Sequences, FiniteSets, TLC

VARIABLES
    pc,            \* position of the call
    input_type,    \* argument of ophelia_input.input ("" for no call yet)
    attempt,       \* loop variable of browser_input (0 before the loop)
    answer,        \* local variable answer of browser_input
    payload_size,  \* local variable payload_size of browser_input
    socks,         \* every socket the call created, in creation order
    wire,          \* what each sendall put on the wire
    peer,          \* what the peer wrote back, per attempt
    log,           \* the opr.error_pretty calls
    result,        \* the value returned to the caller
    raised,        \* the exception that left the call
    console,       \* the console read console_input made
    heap,          \* the DSL components built so far, by reference
    born,          \* each component as its constructor left it
    calls,         \* per component, the names its add_class calls were given
    added,         \* per component, the children its add calls were given
    ret            \* the last DSL operation, its arguments and what it returned

clientVars == <<pc, input_type, attempt, answer, payload_size, socks, wire, peer,
                log, result, raised, console>>

dslVars == <<heap, born, calls, added, ret>>

vars == <<clientVars, dslVars>>

(***************************************************************************)
(* Python values that flow through the call. A dict is its set of          *)
(* <<key, value>> items, a list its set of <<index, value>> items, a str   *)
(* its text.                                                               *)
(***************************************************************************)
PyValue(ty, items, text) == [ty |-> ty, items |-> items, text |-> text]

Dict(items) == PyValue("dict", items, "")

List(items) == PyValue("list", items, "")

Str(text) == PyValue("str", {}, text)

None == PyValue("NoneType", {}, "")

Unset == PyValue("unset", {}, "")

NoException == [type |-> "", msg |-> ""]

Min(a, b) == IF a < b THEN a ELSE b

(***************************************************************************)
(* Program constants.                                                      *)
(***************************************************************************)
MaxAttempts == 3

SockTimeout == 300

RecvBufSize == 8192

(***************************************************************************)
(* Byte counts go beyond what a model-checker integer holds, so a count is *)
(* kept in two 16-bit halves: Wide(hi, lo) is hi * 2^16 + lo.              *)
(***************************************************************************)
Radix == 256 * 256

Wide(hi, lo) == [hi |-> hi, lo |-> lo]

(***************************************************************************)
(* struct.pack("!I", n): four bytes, most significant first; struct.error  *)
(* when n does not fit 32 unsigned bits.                                   *)
(***************************************************************************)
CanPackI(n) == n.hi < Radix

struct_pack_I_little(n) ==
    << n.lo % 256, n.lo \div 256, n.hi % 256, n.hi \div 256 >>

struct_pack_I(n) ==
    << n.hi \div 256, n.hi % 256, n.lo \div 256, n.lo % 256 >>

(***************************************************************************)
(* The byte lengths of json.dumps(prompt.serialize()).encode("utf-8") the  *)
(* call is tried with: the default prompt (296 bytes), lengths that need   *)
(* the second, third and fourth prefix byte, the largest length that       *)
(* packs (2^32 - 1), and the first that does not (2^32).                   *)
(***************************************************************************)
PayloadSizes ==
    { Wide(0, 296), Wide(1, 515), Wide(256, 1), Wide(Radix - 1, Radix - 1), Wide(Radix, 0) }

(***************************************************************************)
(* What the peer may write back on an attempt: len bytes in all, of which  *)
(* seg are there when the client's recv returns. kind says what the bytes  *)
(* are: "json" (well-formed JSON text of value), "not_json" (UTF-8 text    *)
(* that is no JSON), "not_utf8", "eof" (closed without sending anything).  *)
(***************************************************************************)
Resp(kind, len, seg, value) == [kind |-> kind, len |-> len, seg |-> seg, value |-> value]

Field1 == Dict({<<"field1", "value1">>})

BigAnswer == Dict({<<"field1", "long value">>, <<"field2", "value2">>})

Responses ==
    { Resp("json", 2, 2, Dict({})),
      Resp("json", 19, 19, Field1),
      Resp("json", 19, 7, Field1),
      Resp("json", RecvBufSize, RecvBufSize, BigAnswer),
      Resp("json", RecvBufSize + 1, RecvBufSize + 1, BigAnswer),
      Resp("json", 10, 10, List({<<"0", "value1">>})),
      Resp("json", 4, 4, None),
      Resp("json", 8, 8, Str("value1")),
      Resp("not_json", 8, 8, Unset),
      Resp("not_utf8", 2, 2, Unset),
      Resp("eof", 0, 0, Unset) }

(***************************************************************************)
(* recv(8192): the bytes that are there, at most the buffer's size.        *)
(***************************************************************************)
recv_halfbuf(r) == Min(r.seg, RecvBufSize \div 2)

recv(r) == Min(r.seg, RecvBufSize)

(***************************************************************************)
(* answer_bytes.decode("utf-8") then json.loads, on the first n bytes of   *)
(* what the peer wrote: the exception raised, or "" and the value. A       *)
(* proper prefix of a JSON text (the empty one included) is no JSON text.  *)
(***************************************************************************)
decode_error(r, n) ==
    IF r.kind = "not_utf8" THEN "UnicodeDecodeError"
    ELSE IF r.kind # "json" \/ n < r.len \/ n = 0 THEN "JSONDecodeError"
    ELSE ""

json_loads(r) == r.value

(***************************************************************************)
(* The classes each exception is an instance of.                           *)
(***************************************************************************)
Mro(exc) ==
    CASE exc \in {"ConnectionRefusedError", "ConnectionResetError", "BrokenPipeError"}
              -> {exc, "ConnectionError", "OSError", "Exception"}
      [] exc \in {"socket.gaierror", "socket.timeout"} -> {exc, "OSError", "Exception"}
      [] exc \in {"UnicodeDecodeError", "JSONDecodeError"} -> {exc, "ValueError", "Exception"}
      [] exc = "OSError" -> {"OSError", "Exception"}
      [] OTHER -> {exc, "Exception"}

(***************************************************************************)
(* The except clauses of the attempt, in source order; the clause an       *)
(* exception lands in is the first that names one of its classes.          *)
(***************************************************************************)
ExceptClauses ==
    << [name |-> "connection", classes |-> {"ConnectionRefusedError", "ConnectionResetError"}],
       [name |-> "host",       classes |-> {"socket.gaierror"}],
       [name |-> "timeout",    classes |-> {"socket.timeout"}],
       [name |-> "unexpected", classes |-> {"Exception"}] >>

ExceptClause(exc) ==
    LET hits == {i \in 1..Len(ExceptClauses) : ExceptClauses[i].classes \cap Mro(exc) # {}}
        first == CHOOSE i \in hits : \A j \in hits : i <= j
    IN  ExceptClauses[first].name

(***************************************************************************)
(* Leaving the with block closes the socket it created, if it created one. *)
(***************************************************************************)
OpenSocks(ss) == {i \in 1..Len(ss) : ss[i].state # "closed"}

with_exit_leak(ss) == ss

with_exit(ss) ==
    [i \in 1..Len(ss) |-> IF ss[i].state # "closed"
                          THEN [ss[i] EXCEPT !.state = "closed"] ELSE ss[i]]

(***************************************************************************)
(* Where the loop goes after an except clause ran: the timeout clause      *)
(* breaks, the others fall through to the next iteration.                  *)
(***************************************************************************)
after_except_retry(clause) == "loop"

after_except_giveup(clause) == IF clause \in {"timeout", "unexpected"} THEN "break" ELSE "loop"

after_except(clause) == IF clause = "timeout" THEN "break" ELSE "loop"

(***************************************************************************)
(* Exception exc raised inside the with block of attempt att: the socket   *)
(* is closed, the clause logs, the loop breaks or goes on.                 *)
(***************************************************************************)
Except(exc, att, ss) ==
    /\ socks' = with_exit(ss)
    /\ log' = Append(log, [clause |-> ExceptClause(exc), exc |-> exc, attempt |-> att])
    /\ pc' = after_except(ExceptClause(exc))

(***************************************************************************)
(* Initial state: no call made yet, no component built.                    *)
(***************************************************************************)
NoRet == [op |-> "", self |-> 0, args |-> << >>, value |-> << >>]

InitClient ==
    /\ pc = "idle"
    /\ input_type = ""
    /\ attempt = 0
    /\ answer = Unset
    /\ payload_size = Wide(0, 0)
    /\ socks = << >>
    /\ wire = << >>
    /\ peer = << >>
    /\ log = << >>
    /\ result = Unset
    /\ raised = NoException
    /\ console = [fn |-> "", message |-> ""]

InitDSL ==
    /\ heap = << >>
    /\ born = << >>
    /\ calls = << >>
    /\ added = << >>
    /\ ret = NoRet

Init == InitClient /\ InitDSL

(***************************************************************************)
(* console_input: one line read from the console, with the prompt and the  *)
(* reader the kwargs select. The line is returned as it is.                *)
(***************************************************************************)
ConsoleKwargs == [prompt : {"", "Name"}, opr : BOOLEAN]

Lines == {"", "hello"}

console_input ==
    \E kw \in ConsoleKwargs, line \in Lines :
        /\ console' = IF kw.prompt # ""
                      THEN IF kw.opr THEN [fn |-> "opr.input_from", message |-> kw.prompt]
                           ELSE [fn |-> "input", message |-> kw.prompt \o ": "]
                      ELSE [fn |-> "input", message |-> "Input: "]
        /\ result' = Str(line)
        /\ pc' = "returned"
        /\ UNCHANGED <<attempt, answer, payload_size, socks, wire, peer, log, raised>>

(***************************************************************************)
(* browser_input up to the loop: answer = {}, the prompt serialized,       *)
(* encoded and measured.                                                   *)
(***************************************************************************)
browser_input ==
    \E n \in PayloadSizes :
        /\ answer' = Dict({})
        /\ payload_size' = n
        /\ attempt' = 0
        /\ pc' = "loop"
        /\ UNCHANGED <<socks, wire, peer, log, result, raised, console>>

(***************************************************************************)
(* ophelia_input.input: the match on input_type.                           *)
(***************************************************************************)
InputTypes == {"console", "browser", "Browser", "hud", ""}

unhandled_as_console(t) ==
    /\ pc = "idle"
    /\ input_type' = t
    /\ IF t = "browser" THEN browser_input ELSE console_input
    /\ UNCHANGED dslVars

input(t) ==
    /\ pc = "idle"
    /\ input_type' = t
    /\ CASE t = "console" -> console_input
         [] t = "browser" -> browser_input
         [] OTHER ->
              /\ raised' = [type |-> "ValueError", msg |-> "Unhandled input type: " \o t]
              /\ pc' = "raised"
              /\ UNCHANGED <<attempt, answer, payload_size, socks, wire, peer, log,
                             result, console>>
    /\ UNCHANGED dslVars

(***************************************************************************)
(* The head of an iteration of for attempt in range(1, 4): the socket is   *)
(* created and its timeout set; socket.socket may itself raise OSError     *)
(* (no descriptor left), and then there is no socket to close.             *)
(***************************************************************************)
NewSocket(att) == [state |-> "open", timeout |-> SockTimeout, attempt |-> att]

StartAttempt ==
    /\ pc = "loop"
    /\ attempt < MaxAttempts
    /\ attempt' = attempt + 1
    /\ \/ /\ socks' = Append(socks, NewSocket(attempt + 1))
          /\ pc' = "opened"
          /\ UNCHANGED log
       \/ Except("OSError", attempt + 1, socks)
    /\ UNCHANGED <<input_type, answer, payload_size, wire, peer, result, raised, console>>
    /\ UNCHANGED dslVars

(***************************************************************************)
(* sock.connect((HUD_HOST, HUD_PORT)): the peer accepts, or the connect    *)
(* raises.                                                                 *)
(***************************************************************************)
ConnectErrors ==
    {"ConnectionRefusedError", "ConnectionResetError", "socket.gaierror",
     "socket.timeout", "OSError"}

Connect ==
    /\ pc = "opened"
    /\ \/ /\ socks' = [socks EXCEPT ![Len(socks)].state = "connected"]
          /\ pc' = "connected"
          /\ UNCHANGED log
       \/ \E exc \in ConnectErrors : Except(exc, attempt, socks)
    /\ UNCHANGED <<input_type, attempt, answer, payload_size, wire, peer, result,
                   raised, console>>
    /\ UNCHANGED dslVars

(***************************************************************************)
(* size_packed = struct.pack("!I", payload_size);                          *)
(* sock.sendall(size_packed + payload_bytes). wire records the bytes that  *)
(* left: the prefix bytes and the number of payload bytes after them. A    *)
(* sendall that raises may have written only a part of the message.        *)
(***************************************************************************)
Frame(prefix, size, head_written, body_written) ==
    [head |-> SubSeq(prefix, 1, head_written),
     body |-> body_written,
     payload |-> size,
     attempt |-> attempt]

SendErrors == {"ConnectionResetError", "BrokenPipeError", "socket.timeout"}

PartialWrites(prefix) ==
    { <<0, Wide(0, 0)>>, <<2, Wide(0, 0)>>, <<Len(prefix), Wide(0, 0)>>,
      <<Len(prefix), Wide(0, 1)>> }

SendAll ==
    /\ pc = "connected"
    /\ IF ~CanPackI(payload_size)
       THEN /\ Except("struct.error", attempt, socks)
            /\ UNCHANGED wire
       ELSE LET size_packed == struct_pack_I(payload_size)
            IN  \/ /\ wire' = Append(wire, Frame(size_packed, payload_size,
                                                 Len(size_packed), payload_size))
                   /\ pc' = "sent"
                   /\ UNCHANGED <<socks, log>>
                \/ \E exc \in SendErrors, w \in PartialWrites(size_packed) :
                       /\ wire' = Append(wire, Frame(size_packed, payload_size, w[1], w[2]))
                       /\ Except(exc, attempt, socks)
    /\ UNCHANGED <<input_type, attempt, answer, payload_size, peer, result, raised, console>>
    /\ UNCHANGED dslVars

(***************************************************************************)
(* answer_bytes = sock.recv(8192); answer = json.loads(decoded); break.    *)
(* The peer writes a response (or closes) and the one recv takes what is   *)
(* there, or the recv raises: reset by the peer, or nothing within the     *)
(* timeout.                                                                *)
(***************************************************************************)
RecvErrors == {"ConnectionResetError", "socket.timeout"}

Recv ==
    /\ pc = "sent"
    /\ \/ \E r \in Responses :
            /\ peer' = Append(peer, [attempt |-> attempt, wrote |-> r])
            /\ IF decode_error(r, recv(r)) = ""
               THEN /\ answer' = json_loads(r)
                    /\ socks' = with_exit(socks)
                    /\ pc' = "break"
                    /\ UNCHANGED log
               ELSE /\ Except(decode_error(r, recv(r)), attempt, socks)
                    /\ UNCHANGED answer
       \/ \E exc \in RecvErrors :
            /\ Except(exc, attempt, socks)
            /\ UNCHANGED <<answer, peer>>
    /\ UNCHANGED <<input_type, attempt, payload_size, wire, result, raised, console>>
    /\ UNCHANGED dslVars

(***************************************************************************)
(* return answer, after a break or after the last iteration.               *)
(***************************************************************************)
Return ==
    /\ pc = "break" \/ (pc = "loop" /\ attempt >= MaxAttempts)
    /\ result' = answer
    /\ pc' = "returned"
    /\ UNCHANGED <<input_type, attempt, answer, payload_size, socks, wire, peer, log,
                   raised, console>>
    /\ UNCHANGED dslVars

Next ==
    \/ \E t \in InputTypes : input(t)
    \/ StartAttempt
    \/ Connect
    \/ SendAll
    \/ Recv
    \/ Return

Spec == Init /\ [][Next]_vars

(***************************************************************************)
(*                     Properties of the remote input client               *)
(***************************************************************************)
BrowserCall == input_type = "browser"

EveryAttemptFailed == Len(log) = attempt

NoTimeoutLogged == \A i \in 1..Len(log) : log[i].exc # "socket.timeout"

AllClosed == OpenSocks(socks) = {}

(***************************************************************************)
(* C1: when the call has returned and every attempt failed with a failure  *)
(* other than a timeout, exactly 3 attempts were made, numbered 1, 2, 3 in *)
(* that order, each with at most its own socket, and the value returned is *)
(* the empty mapping.                                                      *)
(***************************************************************************)
C1_ThreeAttemptsThenEmpty ==
    (BrowserCall /\ pc = "returned" /\ EveryAttemptFailed /\ NoTimeoutLogged)
        => /\ attempt = 3
           /\ Len(log) = 3
           /\ \A i \in 1..3 : log[i].attempt = i
           /\ Len(socks) <= 3
           /\ result = Dict({})

C1_Witness ==
    /\ BrowserCall /\ pc = "returned"
    /\ Len(log) = 3
    /\ log[1].exc = "ConnectionRefusedError"
    /\ log[2].exc = "socket.gaierror"
    /\ log[3].exc = "JSONDecodeError"
    /\ result = Dict({})

(***************************************************************************)
(* C2: once an attempt has ended with a timeout, that attempt is the last: *)
(* the timeout is the last thing logged, the loop has been left, no socket *)
(* was created after it, and the call returns the empty mapping.           *)
(***************************************************************************)
C2_TimeoutAborts ==
    \A i \in 1..Len(log) :
        log[i].exc = "socket.timeout"
            => /\ i = Len(log)
               /\ attempt = log[i].attempt
               /\ Len(socks) <= log[i].attempt
               /\ pc \in {"break", "returned"}
               /\ answer = Dict({})
               /\ (pc = "returned" => result = Dict({}))

C2_Witness ==
    /\ BrowserCall /\ pc = "returned"
    /\ Len(log) = 2
    /\ log[2].exc = "socket.timeout"
    /\ attempt = 2
    /\ result = Dict({})

(***************************************************************************)
(* C3: at most one socket is open at any time; while an attempt runs the   *)
(* open socket is the one that attempt created; between attempts, after    *)
(* the loop and after the return none is open; no two attempts share a     *)
(* socket.                                                                 *)
(***************************************************************************)
C3_OneFreshSocketPerAttempt ==
    /\ Cardinality(OpenSocks(socks)) <= 1
    /\ pc \in {"opened", "connected", "sent"}
          => /\ OpenSocks(socks) = {Len(socks)}
             /\ socks[Len(socks)].attempt = attempt
    /\ pc \notin {"opened", "connected", "sent"} => AllClosed
    /\ \A i, j \in 1..Len(socks) : socks[i].attempt = socks[j].attempt => i = j

C3_Witness ==
    /\ BrowserCall /\ pc = "returned"
    /\ Len(socks) = 3
    /\ AllClosed
    /\ Len(log) = 2
    /\ log[1].exc = "socket.gaierror"
    /\ log[2].exc = "ConnectionResetError"
    /\ result = Field1

(***************************************************************************)
(* C4: no exception leaves browser_input and what it returns is a mapping. *)
(***************************************************************************)
C4_AlwaysAMapping ==
    BrowserCall => /\ pc # "raised"
                   /\ pc = "returned" => result.ty = "dict"

FirstAnswerIsMapping ==
    /\ Len(peer) >= 1
    /\ peer[1].attempt = 1
    /\ peer[1].wrote.kind = "json"
    /\ peer[1].wrote.value.ty = "dict"

ReturnedFirstAnswer ==
    /\ result = peer[1].wrote.value
    /\ attempt = 1
    /\ log = << >>
    /\ Len(socks) = 1
    /\ socks[1].state = "closed"

(***************************************************************************)
(* C5 as stated: when the peer answered the first attempt with a           *)
(* well-formed mapping, the call returns that mapping from the first       *)
(* attempt, with one socket opened and closed.                             *)
(***************************************************************************)
C5_Original ==
    (BrowserCall /\ pc = "returned" /\ FirstAnswerIsMapping) => ReturnedFirstAnswer

(***************************************************************************)
(* C5 amended: when the peer answered the first attempt with a well-formed *)
(* mapping of at most 8192 bytes, all of it there for the client's one     *)
(* receive, the call returns that mapping from the first attempt, with one *)
(* socket opened and closed and no second attempt.                         *)
(***************************************************************************)
C5_HappyPath ==
    (/\ BrowserCall /\ pc = "returned" /\ FirstAnswerIsMapping
     /\ peer[1].wrote.len <= 8192
     /\ peer[1].wrote.seg = peer[1].wrote.len)
        => ReturnedFirstAnswer

C5_Witness ==
    /\ BrowserCall /\ pc = "returned"
    /\ FirstAnswerIsMapping
    /\ peer[1].wrote.len = 19
    /\ result = Field1
    /\ attempt = 1
    /\ Len(socks) = 1

BigEndian(b) == Wide(b[1] * 256 + b[2], b[3] * 256 + b[4])

WholeFrame(f) == Len(f.head) = 4 /\ f.body = f.payload

(***************************************************************************)
(* C6: every message written whole is 4 prefix bytes followed by the       *)
(* payload, and the prefix read big-endian is the payload's byte length;   *)
(* a message cut short by a failing send starts the same way; an attempt   *)
(* that got as far as waiting for the answer wrote its message whole.      *)
(***************************************************************************)
C6_LengthPrefix ==
    /\ \A i \in 1..Len(wire) :
          /\ wire[i].payload = payload_size
          /\ Len(wire[i].head) <= 4
          /\ Len(wire[i].head) < 4 => wire[i].body = Wide(0, 0)
          /\ Len(wire[i].head) = 4 => BigEndian(wire[i].head) = payload_size
    /\ pc = "sent" => /\ wire # << >>
                      /\ wire[Len(wire)].attempt = attempt
                      /\ WholeFrame(wire[Len(wire)])

C6_Witness ==
    /\ pc = "sent"
    /\ payload_size = Wide(256, 1)
    /\ wire[Len(wire)].head = <<1, 0, 0, 1>>
    /\ WholeFrame(wire[Len(wire)])
    /\ attempt = 2

ConsoleRan == console.fn # ""

BrowserRan == answer # Unset

(***************************************************************************)
(* C7: "console" runs the console routine and nothing else, "browser" runs *)
(* the remote client and nothing else, and any other value raises at once  *)
(* a ValueError whose message ends with that value, with neither routine   *)
(* run and no socket created.                                              *)
(***************************************************************************)
C7_Dispatch ==
    pc # "idle" =>
        /\ input_type = "console" => (ConsoleRan /\ ~BrowserRan /\ pc = "returned"
                                        /\ socks = << >> /\ raised = NoException)
        /\ input_type = "browser" => (BrowserRan /\ ~ConsoleRan /\ raised = NoException)
        /\ input_type \notin {"console", "browser"}
              => /\ pc = "raised"
                 /\ raised.type = "ValueError"
                 /\ raised.msg = "Unhandled input type: " \o input_type
                 /\ ~ConsoleRan /\ ~BrowserRan
                 /\ socks = << >> /\ wire = << >> /\ result = Unset

C7_Witness ==
    /\ pc = "raised"
    /\ input_type = "Browser"
    /\ raised.msg = "Unhandled input type: Browser"
    /\ socks = << >>

(***************************************************************************)
(*                         The DSL component model                         *)
(*                                                                         *)
(* A component is a heap object, named by its index in heap:               *)
(*   cls       its class (its type is the class attribute, TypeOf)         *)
(*   id        the id it was constructed with                              *)
(*   classes   None or a str                                               *)
(*   props     the **props dictionary, as a set of <<key, value>> items    *)
(*   children  for a container, the references of its children, in order   *)
(***************************************************************************)
MaxObjs == 3

MaxAddClass == 3

HeadingClasses == {"JS_H1", "JS_H2", "JS_H3", "JS_H4", "JS_H5", "JS_H6"}

IsContainer(cls) == cls \in {"JS_Div", "JS_Form", "JS_Section", "JS_Header_Div"}

TypeOf(cls) ==
    CASE cls = "JS_Div" -> "div"
      [] cls = "JS_Form" -> "form"
      [] cls = "JS_Section" -> "section"
      [] cls = "JS_Label" -> "label"
      [] cls = "JS_TextBox" -> "input"
      [] cls = "JS_Select" -> "select"
      [] cls = "JS_Checkbox" -> "checkbox"
      [] cls = "JS_Radio" -> "radio"
      [] cls = "JS_Button" -> "button"
      [] cls = "JS_H1" -> "h1"
      [] cls = "JS_H2" -> "h2"
      [] cls = "JS_H3" -> "h3"
      [] cls = "JS_H4" -> "h4"
      [] cls = "JS_H5" -> "h5"
      [] cls = "JS_H6" -> "h6"
      [] cls = "JS_Header_Div" -> "div"

(***************************************************************************)
(* The arguments the caller builds with. The i-th component built gets the *)
(* id "c<i>", so ids are unique; classes is left out (None), empty or set. *)
(* LeafCalls and ContainerCalls are the constructor calls tried: the class *)
(* and the classes argument.                                               *)
(***************************************************************************)
IdOf(ref) == "c" \o ToString(ref)

ClassesArgs == {None, Str(""), Str("box")}

LeafCalls == { <<"JS_Label", None>>, <<"JS_Label", Str("")>>, <<"JS_TextBox", Str("box")>> }

ContainerCalls == { <<"JS_Div", None>>, <<"JS_Form", Str("box")>> }

ClassNames == {"", "a", "b"}

Levels == {0, 1, 3, 6, 7}

HeaderText == "Title"

Refs(h) == 1..Len(h)

(***************************************************************************)
(* The props each leaf constructor passes on to JS_Component.__init__.     *)
(***************************************************************************)
LeafProps(cls) ==
    CASE cls = "JS_Label" -> {<<"text", "Name">>}
      [] cls = "JS_TextBox" -> {<<"label", "Name">>, <<"hint", "">>}
      [] cls \in HeadingClasses -> {<<"text", HeaderText>>}

Component(cls, id, classes, props, children) ==
    [cls |-> cls, id |-> id, classes |-> classes, props |-> props, children |-> children]

(***************************************************************************)
(* Truth value of a classes field: None and "" are false.                  *)
(***************************************************************************)
Truthy(v) == v.ty = "str" /\ v.text # ""

(***************************************************************************)
(* JS_Component.add_class: the new value of self.classes.                  *)
(***************************************************************************)
JS_Component_add_class_nospace(classes, class_name) ==
    IF Truthy(classes) THEN Str(classes.text \o class_name) ELSE Str(class_name)

JS_Component_add_class(classes, class_name) ==
    IF Truthy(classes) THEN Str(classes.text \o " " \o class_name) ELSE Str(class_name)

(***************************************************************************)
(* JS_Container.add: self.children.extend(children).                       *)
(***************************************************************************)
JS_Container_add_front(children, more) == more \o children

JS_Container_add(children, more) == children \o more

(***************************************************************************)
(* serialize: JS_Component's for a leaf, JS_Container's (which calls the   *)
(* former and then serializes the children) for a container.               *)
(***************************************************************************)
RECURSIVE serialize(_, _)

JS_Component_serialize(h, o) ==
    [type |-> TypeOf(h[o].cls), id |-> h[o].id, classes |-> h[o].classes,
     props |-> h[o].props]

JS_Container_serialize_reversed(h, o) ==
    LET base == JS_Component_serialize(h, o)
        n == Len(h[o].children)
    IN  [type |-> base.type, id |-> base.id, classes |-> base.classes,
         props |-> base.props,
         children |-> [i \in 1..n |-> serialize(h, h[o].children[n + 1 - i])]]

JS_Container_serialize(h, o) ==
    LET base == JS_Component_serialize(h, o)
    IN  [type |-> base.type, id |-> base.id, classes |-> base.classes,
         props |-> base.props,
         children |-> [i \in 1..Len(h[o].children) |-> serialize(h, h[o].children[i])]]

serialize(h, o) ==
    IF IsContainer(h[o].cls) THEN JS_Container_serialize(h, o)
    ELSE JS_Component_serialize(h, o)

(***************************************************************************)
(* Ownership: a component belongs to at most one container. The caller     *)
(* hands a container only components that belong to none yet, and never    *)
(* the root of the tree the container itself is in.                        *)
(***************************************************************************)
Parents(h, o) == {p \in Refs(h) : \E i \in 1..Len(h[p].children) : h[p].children[i] = o}

Orphans(h) == {o \in Refs(h) : Parents(h, o) = {}}

RECURSIVE RootOf(_, _)

RootOf(h, o) ==
    IF Parents(h, o) = {} THEN o ELSE RootOf(h, CHOOSE p \in Parents(h, o) : TRUE)

ChildLists(S) ==
    {<<a>> : a \in S} \cup {<<a, b>> : <<a, b>> \in {x \in S \X S : x[1] # x[2]}}

Ret(op, self, args, value) == [op |-> op, self |-> self, args |-> args, value |-> value]

(***************************************************************************)
(* A leaf constructor: JS_Label(id, text, classes), JS_TextBox(id, label,  *)
(* hint, classes).                                                         *)
(***************************************************************************)
NewLeaf ==
    /\ Len(heap) < MaxObjs
    /\ \E call \in LeafCalls :
          LET cls == call[1]
              classes == call[2]
              ref == Len(heap) + 1
              obj == Component(cls, IdOf(ref), classes, LeafProps(cls), << >>)
          IN  /\ heap' = Append(heap, obj)
              /\ born' = Append(born, obj)
              /\ calls' = Append(calls, << >>)
              /\ added' = Append(added, << >>)
              /\ ret' = Ret(cls, ref, << >>, ref)
    /\ UNCHANGED clientVars

(***************************************************************************)
(* A container constructor: JS_Div(id, classes, children), JS_Form(...).   *)
(* self.children = children or [].                                         *)
(***************************************************************************)
NewContainer ==
    /\ Len(heap) < MaxObjs
    /\ \E call \in ContainerCalls, children \in {<< >>} \cup ChildLists(Orphans(heap)) :
          LET cls == call[1]
              classes == call[2]
              ref == Len(heap) + 1
              obj == Component(cls, IdOf(ref), classes, {}, children)
          IN  /\ heap' = Append(heap, obj)
              /\ born' = Append(born, obj)
              /\ calls' = Append(calls, << >>)
              /\ added' = Append(added, << >>)
              /\ ret' = Ret(cls, ref, children, ref)
    /\ UNCHANGED clientVars

(***************************************************************************)
(* container.add(child, ...), which returns the container.                 *)
(***************************************************************************)
CallAdd ==
    /\ \E self \in {o \in Refs(heap) : IsContainer(heap[o].cls)} :
       \E more \in ChildLists(Orphans(heap) \ {RootOf(heap, self)}) :
          /\ heap' = [heap EXCEPT ![self].children = JS_Container_add(@, more)]
          /\ added' = [added EXCEPT ![self] = @ \o more]
          /\ ret' = Ret("add", self, more, self)
    /\ UNCHANGED <<born, calls>>
    /\ UNCHANGED clientVars

(***************************************************************************)
(* component.add_class(class_name), which returns the component.           *)
(***************************************************************************)
NumCalls(cs) == Cardinality(UNION {{<<o, i>> : i \in 1..Len(cs[o])} : o \in Refs(cs)})

CallAddClass ==
    /\ NumCalls(calls) < MaxAddClass
    /\ \E self \in Refs(heap), class_name \in ClassNames :
          /\ heap' = [heap EXCEPT ![self].classes = JS_Component_add_class(@, class_name)]
          /\ calls' = [calls EXCEPT ![self] = Append(@, class_name)]
          /\ ret' = Ret("add_class", self, <<class_name>>, self)
    /\ UNCHANGED <<born, added>>
    /\ UNCHANGED clientVars

(***************************************************************************)
(* JS_Header_Div(id, header, header_level, child, classes): the container  *)
(* itself, then the heading built from header_level, then the child given  *)
(* the class inputFieldDefaults, then both added.                          *)
(***************************************************************************)
Format(v) == IF v.ty = "NoneType" THEN "None" ELSE v.text

heading_class_map_get_clamped(header_level) ==
    IF header_level < 1 THEN "JS_H1"
    ELSE IF header_level > 6 THEN "JS_H6"
    ELSE "JS_H" \o ToString(header_level)

heading_class_map_get(header_level) ==
    CASE header_level = 1 -> "JS_H1"
      [] header_level = 2 -> "JS_H2"
      [] header_level = 3 -> "JS_H3"
      [] header_level = 4 -> "JS_H4"
      [] header_level = 5 -> "JS_H5"
      [] header_level = 6 -> "JS_H6"
      [] OTHER -> "JS_H1"

NewHeaderDiv ==
    /\ Len(heap) + 2 <= MaxObjs
    /\ \E header_level \in Levels, classes \in ClassesArgs, child \in Orphans(heap) :
          LET self == Len(heap) + 1
              head == Len(heap) + 2
              id == IdOf(self)
              c == Str("headerDivDefault " \o Format(classes))
              HeadingClass == heading_class_map_get(header_level)
              heading_component ==
                  Component(HeadingClass, id \o "_header", None, LeafProps(HeadingClass), << >>)
              container ==
                  Component("JS_Header_Div", id, c, {},
                            JS_Container_add(<< >>, <<head, child>>))
              styled == [heap EXCEPT ![child].classes =
                                        JS_Component_add_class(@, "inputFieldDefaults")]
          IN  /\ heap' = styled \o <<container, heading_component>>
              /\ born' = born \o <<container, heading_component>>
              /\ calls' = [calls EXCEPT ![child] = Append(@, "inputFieldDefaults")]
                              \o << << >>, << >> >>
              /\ added' = added \o << << >>, << >> >>
              /\ ret' = Ret("JS_Header_Div", self,
                            [id |-> id, header |-> HeaderText, header_level |-> header_level,
                             child |-> child, classes |-> classes, was |-> heap[child]],
                            self)
    /\ UNCHANGED clientVars

(***************************************************************************)
(* component.serialize(), which returns the document.                      *)
(***************************************************************************)
CallSerialize ==
    /\ \E self \in Refs(heap) : ret' = Ret("serialize", self, << >>, serialize(heap, self))
    /\ UNCHANGED <<heap, born, calls, added>>
    /\ UNCHANGED clientVars

NextDSL ==
    \/ NewLeaf
    \/ NewContainer
    \/ NewHeaderDiv
    \/ CallAdd
    \/ CallSerialize

SpecDSL == Init /\ [][NextDSL]_vars

(***************************************************************************)
(* SpecClasses: a JS_Div holding one JS_Label, built with any classes      *)
(* arguments, and then any add_class calls on either.                      *)
(***************************************************************************)
InitClasses ==
    /\ InitClient
    /\ \E c1 \in ClassesArgs, c2 \in ClassesArgs :
          /\ heap = << Component("JS_Label", IdOf(1), c1, LeafProps("JS_Label"), << >>),
                       Component("JS_Div", IdOf(2), c2, {}, <<1>>) >>
          /\ born = heap
    /\ calls = << << >>, << >> >>
    /\ added = << << >>, << >> >>
    /\ ret = Ret("JS_Div", 2, <<1>>, 2)

NextClasses ==
    \/ CallAddClass
    \/ CallSerialize

SpecClasses == InitClasses /\ [][NextClasses]_vars

(***************************************************************************)
(*                    Properties of the component model                    *)
(***************************************************************************)
LeafKeys == {"type", "id", "classes", "props"}

ContainerKeys == LeafKeys \cup {"children"}

(***************************************************************************)
(* The reference definition of a component's document: the four fields of  *)
(* the component, and for a container the documents of its children, one   *)
(* per child and in the children's order.                                  *)
(***************************************************************************)
RECURSIVE IsDocumentOf(_, _)

IsDocumentOf(doc, o) ==
    /\ DOMAIN doc = (IF IsContainer(heap[o].cls) THEN ContainerKeys ELSE LeafKeys)
    /\ doc.type = TypeOf(heap[o].cls)
    /\ doc.id = heap[o].id
    /\ doc.classes = heap[o].classes
    /\ doc.props = heap[o].props
    /\ IsContainer(heap[o].cls)
          => /\ Len(doc.children) = Len(heap[o].children)
             /\ \A i \in 1..Len(heap[o].children) :
                   IsDocumentOf(doc.children[i], heap[o].children[i])

(***************************************************************************)
(* C8: a container's children are those it was constructed with followed   *)
(* by those added later, in the order given; and the document serialize    *)
(* returns is the reference document of the component: four keys for a     *)
(* leaf, the same plus children for a container, at every depth.           *)
(***************************************************************************)
C8_SerializeIsReference ==
    /\ \A o \in Refs(heap) : heap[o].children = born[o].children \o added[o]
    /\ ret.op = "serialize" => IsDocumentOf(ret.value, ret.self)

C8_Witness ==
    /\ ret.op = "serialize"
    /\ ret.self = 2
    /\ Len(heap) = 3
    /\ born[2].children = <<1>>
    /\ born[1].children = << >>
    /\ added[1] = <<3>>
    /\ Len(ret.value.children) = 1
    /\ Len(ret.value.children[1].children) = 1
    /\ ret.value.children[1].children[1].id = "c3"
    /\ DOMAIN ret.value.children[1].children[1] = LeafKeys

RECURSIVE Join(_)

Join(names) ==
    IF Len(names) = 1 THEN names[1]
    ELSE Join(SubSeq(names, 1, Len(names) - 1)) \o " " \o names[Len(names)]

BuiltUnstyled(o) == born[o].classes \in {None, Str("")}

ClassesAreJoinedCalls(o) == heap[o] = [born[o] EXCEPT !.classes = Str(Join(calls[o]))]

(***************************************************************************)
(* C9 as stated: a component built with classes unset or empty has, after  *)
(* add_class calls, the names of the calls joined by single spaces in call *)
(* order as its classes, and every other field as it was built.            *)
(***************************************************************************)
C9_Original ==
    \A o \in Refs(heap) :
        (BuiltUnstyled(o) /\ calls[o] # << >>) => ClassesAreJoinedCalls(o)

(***************************************************************************)
(* C9 amended: the same, for calls whose first name is not the empty       *)
(* string.                                                                 *)
(***************************************************************************)
C9_JoinedInCallOrder ==
    \A o \in Refs(heap) :
        (BuiltUnstyled(o) /\ calls[o] # << >> /\ calls[o][1] # "")
            => ClassesAreJoinedCalls(o)

C9_Witness ==
    /\ born[1].classes = None
    /\ calls[1] = <<"a", "b", "a">>
    /\ heap[1].classes = Str("a b a")
    /\ ret.op = "add_class"

(***************************************************************************)
(* C10: right after JS_Header_Div(id, header, header_level, child) the new *)
(* container has exactly two children: first a heading leaf with id        *)
(* id_header and type h<header_level> for a level in 1..6, h1 otherwise;   *)
(* then the child given, changed only in that inputFieldDefaults is        *)
(* appended to its classes.                                                *)
(***************************************************************************)
C10_HeaderDivChildren ==
    ret.op = "JS_Header_Div" =>
        LET a == ret.args
            kids == heap[ret.value].children
        IN  /\ Len(kids) = 2
            /\ heap[kids[1]].id = a.id \o "_header"
            /\ ~IsContainer(heap[kids[1]].cls)
            /\ TypeOf(heap[kids[1]].cls) =
                  (IF a.header_level \in 1..6 THEN "h" \o ToString(a.header_level) ELSE "h1")
            /\ kids[2] = a.child
            /\ heap[a.child] =
                  [a.was EXCEPT !.classes =
                      IF @ \in {None, Str("")} THEN Str("inputFieldDefaults")
                      ELSE Str(@.text \o " inputFieldDefaults")]

C10_Witness ==
    /\ ret.op = "JS_Header_Div"
    /\ ret.args.header_level = 7
    /\ ret.args.id = "c2"
    /\ heap[3].id = "c2_header"
    /\ TypeOf(heap[3].cls) = "h1"
    /\ heap[2].children = <<3, 1>>
    /\ heap[1].classes = Str("box inputFieldDefaults")

(***************************************************************************)
(* C11: right after JS_Header_Div(..., classes) the new container's        *)
(* classes are headerDivDefault followed by a space and the caller's       *)
(* classes when the caller gave any, and exactly headerDivDefault when the *)
(* caller gave none (classes left out, or empty).                          *)
(***************************************************************************)
C11_HeaderDivClasses ==
    ret.op = "JS_Header_Div" =>
        heap[ret.value].classes =
            (IF ret.args.classes \in {None, Str("")} THEN Str("headerDivDefault")
             ELSE Str("headerDivDefault " \o ret.args.classes.text))

(***************************************************************************)
(*                 The page envelope and the plugin's scheme               *)
(*                                                                         *)
(* What a page operation returns is tagged with its kind: a page (the      *)
(* JS_Page object), a document (the dict serialize returns) or an          *)
(* exception (the call raised).                                            *)
(***************************************************************************)
MaxPageObjs == 4

PyBool(b) == PyValue("bool", {}, IF b THEN "True" ELSE "False")

IsTrue(v) == (v.ty = "bool" /\ v.text = "True") \/ (v.ty = "str" /\ v.text # "")

PyOr(a, b) == IF IsTrue(a) THEN a ELSE b

Raise(exc, msg) == [kind |-> "exception", exc |-> exc, msg |-> msg]

(***************************************************************************)
(* JS_Page.__init__(self, title, prompt, form, description, root), called  *)
(* with keyword arguments kwargs: a keyword that is no parameter, or a     *)
(* parameter left out, is a TypeError.                                     *)
(***************************************************************************)
JS_Page_params == {"title", "prompt", "form", "description", "root"}

JS_Page_init(kwargs) ==
    IF DOMAIN kwargs \ JS_Page_params # {}
    THEN Raise("TypeError", "JS_Page.__init__() got an unexpected keyword argument")
    ELSE IF JS_Page_params \ DOMAIN kwargs # {}
    THEN Raise("TypeError", "JS_Page.__init__() missing required positional arguments")
    ELSE [kind |-> "page",
          page |-> [title |-> kwargs.title, description |-> kwargs.description,
                    prompt |-> kwargs.prompt, form |-> kwargs.form, root |-> kwargs.root]]

(***************************************************************************)
(* JS_Page.serialize.                                                      *)
(***************************************************************************)
JS_Page_serialize(h, page) ==
    [title |-> page.title, description |-> page.description, prompt |-> page.prompt,
     form |-> page.form, root |-> serialize(h, page.root)]

(***************************************************************************)
(* The keyword arguments a page is built with. effects and presets are     *)
(* dicts, empty or not.                                                    *)
(***************************************************************************)
PageKwargs(title, description, prompt, form, root) ==
    [title |-> title, description |-> description, prompt |-> prompt, form |-> form,
     root |-> root]

WithEffects(kwargs, effects, presets) ==
    [title |-> kwargs.title, description |-> kwargs.description, prompt |-> kwargs.prompt,
     form |-> kwargs.form, root |-> kwargs.root, effects |-> effects, presets |-> presets]

MapArgs == {Dict({}), Dict({<<"field1", "hide">>})}

Containers(h) == {o \in Refs(h) : IsContainer(h[o].cls)}

(***************************************************************************)
(* A direct JS_Page(title=, description=, prompt=, form=, root=) call, as  *)
(* ophelia_input.DEFAULT_BROWSER_PROMPT makes.                             *)
(***************************************************************************)
NewPage ==
    /\ \E root \in Containers(heap), form \in BOOLEAN :
          LET kwargs == PageKwargs("Input Required", "", "", PyBool(form), root)
          IN  ret' = Ret("JS_Page", 0, kwargs, JS_Page_init(kwargs))
    /\ UNCHANGED <<heap, born, calls, added>>
    /\ UNCHANGED clientVars

(***************************************************************************)
(* page.serialize() on the page the last call returned.                    *)
(***************************************************************************)
CallPageSerialize ==
    /\ ret.op \in {"JS_Page", "input_scheme"}
    /\ ret.value.kind = "page"
    /\ ret' = Ret("JS_Page.serialize", 0, ret.value,
                  [kind |-> "document", doc |-> JS_Page_serialize(heap, ret.value.page)])
    /\ UNCHANGED <<heap, born, calls, added>>
    /\ UNCHANGED clientVars

(***************************************************************************)
(* ophelia_plugin.input_scheme(root, form, serialize, effects, presets) of *)
(* a plugin named Plugin: the arguments of JS_Page are evaluated first     *)
(* (among them the default root, a JS_Div holding one JS_Label), then      *)
(* JS_Page is called with them, effects and presets included.              *)
(***************************************************************************)
PluginName == "Plugin"

input_scheme ==
    /\ Len(heap) + 2 <= MaxPageObjs
    /\ \E root \in {0} \cup Containers(heap), form \in {None, PyBool(TRUE), PyBool(FALSE)},
          needs_args \in BOOLEAN, do_serialize \in BOOLEAN,
          effects \in MapArgs, presets \in MapArgs :
          LET label == Component("JS_Label", PluginName \o "_no_children", None,
                                 {<<"text", "No children">>}, << >>)
              div == Component("JS_Div", "root", None, {}, <<Len(heap) + 1>>)
              built == IF root = 0 THEN <<label, div>> ELSE << >>
              h == heap \o built
              kwargs == WithEffects(
                            PageKwargs(PluginName, "A plugin", "", PyOr(form, PyBool(needs_args)),
                                       IF root = 0 THEN Len(heap) + 2 ELSE root),
                            effects, presets)
              scheme == JS_Page_init(kwargs)
              value == IF scheme.kind = "page" /\ do_serialize
                       THEN [kind |-> "document", doc |-> JS_Page_serialize(h, scheme.page)]
                       ELSE scheme
          IN  /\ heap' = h
              /\ born' = born \o built
              /\ calls' = calls \o [i \in 1..Len(built) |-> << >>]
              /\ added' = added \o [i \in 1..Len(built) |-> << >>]
              /\ ret' = Ret("input_scheme", 0,
                            [root |-> root, form |-> form, serialize |-> do_serialize,
                             effects |-> effects, presets |-> presets,
                             needs_args |-> needs_args],
                            value)
    /\ UNCHANGED clientVars

NextPage ==
    \/ NewPage
    \/ CallPageSerialize
    \/ input_scheme

SpecPage == InitClasses /\ [][NextPage]_vars

(***************************************************************************)
(* C12: every input_scheme call, whatever its arguments, returns the page  *)
(* built from them (root given or the default one, form given or the       *)
(* plugin's needs_args), or with serialize=True that page's document, with *)
(* exactly the keys title, description, prompt, form and root.             *)
(***************************************************************************)
C12_InputSchemeReturnsPage ==
    ret.op = "input_scheme" =>
        IF ret.args.serialize
        THEN /\ ret.value.kind = "document"
             /\ DOMAIN ret.value.doc = {"title", "description", "prompt", "form", "root"}
        ELSE /\ ret.value.kind = "page"
             /\ ret.value.page.title = PluginName
             /\ ret.args.root # 0 => ret.value.page.root = ret.args.root

=============================================================================
